---- MODULE Spec2Model ----
(***************************************************************************)
(* DroneDB (db_telemetry/src/db.py): a record store for flight logs and    *)
(* detections on one SQLite file.  The file is the state; every method of  *)
(* DroneDB is an operator from the file (and the arguments) to the new     *)
(* file and the value returned, and every action is one call of a method.  *)
(***************************************************************************)
EXTENDS Integers, Sequences, FiniteSets, TLC

VARIABLES db, ret, hist, run

vars == <<db, ret, hist, run>>

----------------------------------------------------------------------------
(* Bounds of the model. *)

MaxFlightLogs == 2
MaxDetections == 2
MaxUpdates == 1
MaxCalls == 3

----------------------------------------------------------------------------
(* Python values, each tagged with its type. *)

None == [type |-> "NoneType"]
PyBool(b) == [type |-> "bool", b |-> b]
PyInt(n) == [type |-> "int", n |-> n]
\* the float w.f (one decimal digit)
PyFloat(w, f) == [type |-> "float", x |-> <<w, f>>]
PyStr(s) == [type |-> "str", s |-> s]
PyList(s) == [type |-> "list", items |-> s]
PyTuple(s) == [type |-> "tuple", items |-> s]
PyDict(d) == [type |-> "dict", map |-> d]

True == PyBool(TRUE)
False == PyBool(FALSE)

\* Python's truth value of an object, as `if x`, `not x`, `a if x else b` and bool(x) take it
Truthy(v) ==
    CASE v.type = "NoneType" -> FALSE
      [] v.type = "bool" -> v.b
      [] v.type = "int" -> v.n # 0
      [] v.type = "float" -> v.x # <<0, 0>>
      [] v.type = "str" -> v.s # ""
      [] v.type \in {"list", "tuple"} -> Len(v.items) > 0
      [] v.type = "dict" -> DOMAIN v.map # {}

bool(v) == PyBool(Truthy(v))

----------------------------------------------------------------------------
(* json.dumps / json.loads.  A JSON text is modelled by its tokens: the    *)
(* literals true, false and null, a number with or without a fraction, a   *)
(* string, an array of texts, an object of named texts.                    *)

RECURSIVE JsonEncodeBoolAsNumber(_)
JsonEncodeBoolAsNumber(o) ==
    CASE o.type = "str" -> [tok |-> "string", chars |-> o.s]
      [] o.type = "NoneType" -> [tok |-> "null"]
      [] o.type = "bool" -> [tok |-> "number", int |-> IF o.b THEN 1 ELSE 0, frac |-> <<>>]
      [] o.type = "int" -> [tok |-> "number", int |-> o.n, frac |-> <<>>]
      [] o.type = "float" -> [tok |-> "number", int |-> o.x[1], frac |-> <<o.x[2]>>]
      [] o.type \in {"list", "tuple"} ->
            [tok |-> "array",
             items |-> [i \in DOMAIN o.items |-> JsonEncodeBoolAsNumber(o.items[i])]]
      [] o.type = "dict" ->
            [tok |-> "object",
             members |-> [k \in DOMAIN o.map |-> JsonEncodeBoolAsNumber(o.map[k])]]

RECURSIVE JsonEncode(_)
JsonEncode(o) ==
    CASE o.type = "str" -> [tok |-> "string", chars |-> o.s]
      [] o.type = "NoneType" -> [tok |-> "null"]
      [] o.type = "bool" -> [tok |-> IF o.b THEN "true" ELSE "false"]
      [] o.type = "int" -> [tok |-> "number", int |-> o.n, frac |-> <<>>]
      [] o.type = "float" -> [tok |-> "number", int |-> o.x[1], frac |-> <<o.x[2]>>]
      [] o.type \in {"list", "tuple"} ->
            [tok |-> "array", items |-> [i \in DOMAIN o.items |-> JsonEncode(o.items[i])]]
      [] o.type = "dict" ->
            [tok |-> "object", members |-> [k \in DOMAIN o.map |-> JsonEncode(o.map[k])]]

RECURSIVE JsonDecode(_)
JsonDecode(t) ==
    CASE t.tok = "string" -> PyStr(t.chars)
      [] t.tok = "null" -> None
      [] t.tok = "true" -> True
      [] t.tok = "false" -> False
      [] t.tok = "number" ->
            IF t.frac = <<>> THEN PyInt(t.int) ELSE PyFloat(t.int, t.frac[1])
      [] t.tok = "array" -> PyList([i \in DOMAIN t.items |-> JsonDecode(t.items[i])])
      [] t.tok = "object" -> PyDict([k \in DOMAIN t.members |-> JsonDecode(t.members[k])])

\* json.dumps with True and False written as the numbers 1 and 0
json_dumps_bool_as_number(obj) == PyStr(JsonEncodeBoolAsNumber(obj))

\* json.dumps(obj): the str holding the JSON text of obj
json_dumps(obj) == PyStr(JsonEncode(obj))

\* json.loads(s): the object the JSON text in s denotes
json_loads(s) == JsonDecode(s.s)

----------------------------------------------------------------------------
(* SQLite.  A stored value carries its storage class; a table is a         *)
(* function from rowid to row; sqlite_sequence keeps, for each             *)
(* AUTOINCREMENT table, the largest rowid the table has ever held.         *)

Tables == {"flight_logs", "detections"}

\* binding a Python value to a `?` parameter
SqlBind(v) ==
    CASE v.type = "NoneType" -> [class |-> "NULL"]
      [] v.type = "bool" -> [class |-> "INTEGER", int |-> IF v.b THEN 1 ELSE 0]
      [] v.type = "int" -> [class |-> "INTEGER", int |-> v.n]
      [] v.type = "float" -> [class |-> "REAL", real |-> v.x]
      [] v.type = "str" -> [class |-> "TEXT", text |-> v.s]

\* the Python value a fetch returns for a stored value
SqlFetch(s) ==
    CASE s.class = "NULL" -> None
      [] s.class = "INTEGER" -> PyInt(s.int)
      [] s.class = "REAL" -> PyFloat(s.real[1], s.real[2])
      [] s.class = "TEXT" -> PyStr(s.text)

SetMax(S) == IF S = {} THEN 0 ELSE CHOOSE m \in S : \A x \in S : x <= m

\* the file before anything was created in it
EmptyFile ==
    [schema |-> {},
     flight_logs |-> <<>>,
     detections |-> <<>>,
     sqlite_sequence |-> [t \in Tables |-> 0]]

\* DROP TABLE IF EXISTS name; CREATE TABLE name (...)
CreateTableDropFirst(d, name) ==
    [d EXCEPT !.schema = @ \cup {name},
              ![name] = <<>>,
              !.sqlite_sequence[name] = 0]

\* CREATE TABLE IF NOT EXISTS name (id INTEGER PRIMARY KEY AUTOINCREMENT, ...)
CreateTableIfNotExists(d, name) ==
    IF name \in d.schema
    THEN d
    ELSE [d EXCEPT !.schema = @ \cup {name}, ![name] = <<>>]

\* the rowid of the next INSERT without AUTOINCREMENT: one more than the largest present
NextRowidReusing(d, table) == SetMax(DOMAIN d[table]) + 1

\* the rowid of the next INSERT into an AUTOINCREMENT table: one more than the
\* largest rowid the table has ever held
NextRowid(d, table) ==
    SetMax(DOMAIN d[table] \cup {d.sqlite_sequence[table]}) + 1

\* INSERT INTO table (columns) VALUES (?, ...): the new file and cursor.lastrowid
SqlInsert(d, table, row) ==
    LET rowid == NextRowid(d, table)
    IN  [db |-> [d EXCEPT ![table] = [i \in DOMAIN @ \cup {rowid} |->
                                          IF i = rowid THEN row ELSE @[i]],
                          !.sqlite_sequence[table] = rowid],
         lastrowid |-> PyInt(rowid)]

\* the rowids a  WHERE id <= ?  matches
WhereIdAtMost(d, table, id) == {i \in DOMAIN d[table] : i <= id.n}

\* the rowids  WHERE id = ?  matches
WhereId(d, table, id) == {i \in DOMAIN d[table] : i = id.n}

\* DELETE FROM table WHERE id <= ?
SqlDeleteAtMost(d, table, id) ==
    LET hit == WhereIdAtMost(d, table, id)
    IN  [db |-> [d EXCEPT ![table] = [i \in DOMAIN @ \ hit |-> @[i]]],
         rowcount |-> Cardinality(hit)]

\* DELETE FROM table WHERE id = ?: the new file and cursor.rowcount
SqlDelete(d, table, id) ==
    LET hit == WhereId(d, table, id)
    IN  [db |-> [d EXCEPT ![table] = [i \in DOMAIN @ \ hit |-> @[i]]],
         rowcount |-> Cardinality(hit)]

RECURSIVE Ascending(_)
\* the elements of a finite set of integers in ascending order
Ascending(S) ==
    IF S = {} THEN <<>>
    ELSE LET m == CHOOSE x \in S : \A y \in S : x <= y
         IN  <<m>> \o Ascending(S \ {m})

\* the stored value of a column of a row; the column id is the rowid
Column(d, table, rowid, col) ==
    IF col = "id" THEN [class |-> "INTEGER", int |-> rowid] ELSE d[table][rowid][col]

\* SELECT cols FROM table [WHERE ...]: the matching rows as tuples, in rowid order
SqlSelect(d, table, cols, hit) ==
    LET ord == Ascending(hit)
    IN  [n \in 1..Len(ord) |->
            PyTuple([c \in 1..Len(cols) |-> SqlFetch(Column(d, table, ord[n], cols[c]))])]

\* UPDATE table SET col = ?, ... WHERE id = ?: the new file and cursor.rowcount
SqlUpdate(d, table, row, id) ==
    LET hit == WhereId(d, table, id)
    IN  [db |-> [d EXCEPT ![table] = [i \in DOMAIN @ |-> IF i \in hit THEN row ELSE @[i]]],
         rowcount |-> Cardinality(hit)]

fetchone(rows) == IF Len(rows) = 0 THEN None ELSE rows[1]

\* a fetch that stops after the first row
fetchall_first_only(rows) == PyList(IF Len(rows) = 0 THEN <<>> ELSE <<rows[1]>>)

fetchall(rows) == PyList(rows)

\* result[i] of a Python tuple or list (indices start at 0)
Item(result, i) == result.items[i + 1]

----------------------------------------------------------------------------
(* DroneDB: construction. *)

_create_tables(d) ==
    CreateTableIfNotExists(CreateTableIfNotExists(d, "flight_logs"), "detections")

__init__(d) == _create_tables(d)

----------------------------------------------------------------------------
(* DroneDB: flight logs.  Every method yields the new file and its result. *)

FlightLogColumns == <<"id", "timestamp", "telemetry_data">>

add_flight_log(d, timestamp, telemetry_data) ==
    LET telemetry_json == json_dumps(telemetry_data)
        ins == SqlInsert(d, "flight_logs",
                         [timestamp |-> SqlBind(timestamp),
                          telemetry_data |-> SqlBind(telemetry_json)])
    IN  [db |-> ins.db, result |-> ins.lastrowid]

get_flight_log(d, log_id) ==
    LET result == fetchone(SqlSelect(d, "flight_logs", FlightLogColumns,
                                     WhereId(d, "flight_logs", log_id)))
    IN  [db |-> d,
         result |-> IF Truthy(result)
                    THEN PyDict([id |-> Item(result, 0),
                                 timestamp |-> Item(result, 1),
                                 telemetry_data |-> json_loads(Item(result, 2))])
                    ELSE None]

get_all_flight_logs(d) ==
    LET results == fetchall(SqlSelect(d, "flight_logs", FlightLogColumns,
                                      DOMAIN d.flight_logs))
    IN  [db |-> d,
         result |-> PyList([n \in DOMAIN results.items |->
                        PyDict([id |-> Item(results.items[n], 0),
                                timestamp |-> Item(results.items[n], 1),
                                telemetry_data |-> json_loads(Item(results.items[n], 2))])])]

delete_flight_log(d, log_id) ==
    LET del == SqlDelete(d, "flight_logs", log_id)
    IN  [db |-> del.db, result |-> PyBool(del.rowcount > 0)]

----------------------------------------------------------------------------
(* DroneDB: detections. *)

DetectionColumns ==
    <<"id", "timestamp", "category", "latitude", "longitude", "picture",
      "bhp", "worker", "change">>

add_detection(d, timestamp, category, latitude, longitude, picture, bhp, worker, change) ==
    LET ins == SqlInsert(d, "detections",
                   [timestamp |-> SqlBind(timestamp),
                    category |-> SqlBind(category),
                    latitude |-> SqlBind(latitude),
                    longitude |-> SqlBind(longitude),
                    picture |-> SqlBind(picture),
                    bhp |-> SqlBind(IF Truthy(bhp) THEN PyInt(1) ELSE PyInt(0)),
                    worker |-> SqlBind(IF Truthy(worker) THEN PyInt(1) ELSE PyInt(0)),
                    change |-> SqlBind(IF Truthy(change) THEN PyInt(1) ELSE PyInt(0))])
    IN  [db |-> ins.db, result |-> ins.lastrowid]

\* the dict get_detection builds from a fetched row, the flags left as fetched
DetectionDictRawFlags(result) ==
    PyDict([id |-> Item(result, 0),
            timestamp |-> Item(result, 1),
            category |-> Item(result, 2),
            latitude |-> Item(result, 3),
            longitude |-> Item(result, 4),
            picture |-> Item(result, 5),
            bhp |-> Item(result, 6),
            worker |-> Item(result, 7),
            change |-> Item(result, 8)])

\* the dict get_detection builds from a fetched row
DetectionDict(result) ==
    PyDict([id |-> Item(result, 0),
            timestamp |-> Item(result, 1),
            category |-> Item(result, 2),
            latitude |-> Item(result, 3),
            longitude |-> Item(result, 4),
            picture |-> Item(result, 5),
            bhp |-> bool(Item(result, 6)),
            worker |-> bool(Item(result, 7)),
            change |-> bool(Item(result, 8))])

get_detection(d, detection_id) ==
    LET result == fetchone(SqlSelect(d, "detections", DetectionColumns,
                                     WhereId(d, "detections", detection_id)))
    IN  [db |-> d,
         result |-> IF Truthy(result) THEN DetectionDict(result) ELSE None]

\* the dict get_all_detections appends for a fetched row
AllDetectionsDict(result) ==
    PyDict([id |-> Item(result, 0),
            timestamp |-> Item(result, 1),
            category |-> Item(result, 2),
            latitude |-> Item(result, 3),
            longitude |-> Item(result, 4),
            picture |-> Item(result, 5),
            bhp |-> bool(Item(result, 6)),
            worker |-> bool(Item(result, 7)),
            change |-> bool(Item(result, 8))])

get_all_detections(d) ==
    LET results == fetchall(SqlSelect(d, "detections", DetectionColumns,
                                      DOMAIN d.detections))
    IN  [db |-> d,
         result |-> PyList([n \in DOMAIN results.items |-> AllDetectionsDict(results.items[n])])]

\* the merge with the flags taken from the arguments alone: 1 if bhp else 0
UpdateMergeFlagsFromArgs(current, timestamp, category, latitude, longitude, picture, bhp, worker, change) ==
    LET new_timestamp == IF timestamp # None THEN timestamp ELSE current.map.timestamp
        new_category == IF category # None THEN category ELSE current.map.category
        new_latitude == IF latitude # None THEN latitude ELSE current.map.latitude
        new_longitude == IF longitude # None THEN longitude ELSE current.map.longitude
        new_picture == IF picture # None THEN picture ELSE current.map.picture
    IN  [timestamp |-> SqlBind(new_timestamp),
         category |-> SqlBind(new_category),
         latitude |-> SqlBind(new_latitude),
         longitude |-> SqlBind(new_longitude),
         picture |-> SqlBind(new_picture),
         bhp |-> SqlBind(IF Truthy(bhp) THEN PyInt(1) ELSE PyInt(0)),
         worker |-> SqlBind(IF Truthy(worker) THEN PyInt(1) ELSE PyInt(0)),
         change |-> SqlBind(IF Truthy(change) THEN PyInt(1) ELSE PyInt(0))]

\* update_detection, the merge: the provided values, the current ones for the rest
UpdateMerge(current, timestamp, category, latitude, longitude, picture, bhp, worker, change) ==
    LET new_timestamp == IF timestamp # None THEN timestamp ELSE current.map.timestamp
        new_category == IF category # None THEN category ELSE current.map.category
        new_latitude == IF latitude # None THEN latitude ELSE current.map.latitude
        new_longitude == IF longitude # None THEN longitude ELSE current.map.longitude
        new_picture == IF picture # None THEN picture ELSE current.map.picture
        new_bhp == IF Truthy(IF bhp # None THEN bhp ELSE current.map.bhp)
                   THEN PyInt(1) ELSE PyInt(0)
        new_worker == IF Truthy(IF worker # None THEN worker ELSE current.map.worker)
                      THEN PyInt(1) ELSE PyInt(0)
        new_change == IF Truthy(IF change # None THEN change ELSE current.map.change)
                      THEN PyInt(1) ELSE PyInt(0)
    IN  [timestamp |-> SqlBind(new_timestamp),
         category |-> SqlBind(new_category),
         latitude |-> SqlBind(new_latitude),
         longitude |-> SqlBind(new_longitude),
         picture |-> SqlBind(new_picture),
         bhp |-> SqlBind(new_bhp),
         worker |-> SqlBind(new_worker),
         change |-> SqlBind(new_change)]

\* a write with INSERT OR REPLACE INTO detections (id, ...) in place of the UPDATE
UpdateWriteReplace(d, row, detection_id) ==
    [db |-> [d EXCEPT !.detections = [i \in DOMAIN @ \cup {detection_id.n} |->
                                         IF i = detection_id.n THEN row ELSE @[i]]],
     result |-> True]

\* update_detection, the write: the UPDATE statement and the value returned
UpdateWrite(d, row, detection_id) ==
    LET upd == SqlUpdate(d, "detections", row, detection_id)
    IN  [db |-> upd.db, result |-> PyBool(upd.rowcount > 0)]

\* update_detection writing with INSERT OR REPLACE and without the look-up of the current row
update_detection_upsert(d, detection_id, timestamp, category, latitude, longitude, picture, bhp, worker, change) ==
    LET current == get_detection(d, detection_id).result
        row == IF Truthy(current)
               THEN UpdateMerge(current, timestamp, category, latitude, longitude,
                                picture, bhp, worker, change)
               ELSE [timestamp |-> SqlBind(timestamp),
                     category |-> SqlBind(category),
                     latitude |-> SqlBind(latitude),
                     longitude |-> SqlBind(longitude),
                     picture |-> SqlBind(picture),
                     bhp |-> SqlBind(IF Truthy(bhp) THEN PyInt(1) ELSE PyInt(0)),
                     worker |-> SqlBind(IF Truthy(worker) THEN PyInt(1) ELSE PyInt(0)),
                     change |-> SqlBind(IF Truthy(change) THEN PyInt(1) ELSE PyInt(0))]
    IN  [db |-> [d EXCEPT !.detections = [i \in DOMAIN @ \cup {detection_id.n} |->
                                             IF i = detection_id.n THEN row ELSE @[i]]],
         result |-> True]

update_detection(d, detection_id, timestamp, category, latitude, longitude, picture, bhp, worker, change) ==
    LET current == get_detection(d, detection_id).result
    IN  IF ~Truthy(current)
        THEN [db |-> d, result |-> False]
        ELSE UpdateWrite(d,
                 UpdateMerge(current, timestamp, category, latitude, longitude,
                             picture, bhp, worker, change),
                 detection_id)

\* delete_detection with the statement of delete_flight_log
delete_detection_from_flight_logs(d, detection_id) ==
    LET del == SqlDelete(d, "flight_logs", detection_id)
    IN  [db |-> del.db, result |-> PyBool(del.rowcount > 0)]

delete_detection(d, detection_id) ==
    LET del == SqlDelete(d, "detections", detection_id)
    IN  [db |-> del.db, result |-> PyBool(del.rowcount > 0)]

----------------------------------------------------------------------------
(* The callers' inputs. *)

Timestamps == {PyStr("2024-01-01T00:00:00"), PyStr("2024-01-02T00:00:00")}

Telemetries ==
    {PyDict([Roll |-> PyList(<<PyFloat(1, 0), PyFloat(1, 5)>>),
             Armed |-> PyList(<<True, True>>)]),
     PyDict([Satellites |-> PyList(<<PyInt(8), PyInt(9)>>),
             Flight_Mode |-> PyList(<<PyStr("AUTO"), PyStr("LOITER")>>),
             Armed |-> PyList(<<False, True>>)]),
     PyDict([Roll |-> PyList(<<PyInt(1), PyInt(0)>>),
             Armed |-> PyList(<<PyInt(1), PyInt(0)>>)])}

\* keyword arguments of add_detection: the four required ones, any of the optional ones
DetectionInputs ==
    {[timestamp |-> PyStr("2024-01-01T00:00:00"), category |-> PyStr("Worker"),
      latitude |-> PyFloat(52, 1), longitude |-> PyFloat(21, 1),
      picture |-> PyStr("path/to/image.jpg"),
      bhp |-> True, worker |-> True, change |-> False],
     [timestamp |-> PyStr("2024-01-02T00:00:00"), category |-> PyStr("Hazard"),
      latitude |-> PyFloat(52, 2), longitude |-> PyFloat(21, 2),
      change |-> True],
     [timestamp |-> PyStr("2024-01-01T00:00:00"), category |-> PyStr("Person"),
      latitude |-> PyFloat(0, 0), longitude |-> PyFloat(21, 1),
      picture |-> PyStr(""), bhp |-> False, worker |-> True]}

\* keyword arguments of update_detection: any of the eight fields
UpdateInputs ==
    {[f \in {} |-> None],
     [category |-> PyStr("Critical Hazard"), bhp |-> False],
     [category |-> PyStr("Worker"), latitude |-> PyFloat(52, 5), bhp |-> False],
     [timestamp |-> PyStr("2024-01-03T00:00:00"), longitude |-> PyFloat(0, 0),
      worker |-> False, change |-> False],
     [picture |-> PyStr("other.jpg"), bhp |-> True, worker |-> True, change |-> True],
     [picture |-> PyStr("")],
     [picture |-> None]}

LogIds == {PyInt(i) : i \in 1..(MaxFlightLogs + 1)}

DetectionIds == {PyInt(i) : i \in 1..(MaxDetections + 1)}

\* the value a call binds to a parameter: the keyword argument, or the default
Arg(kwargs, name, default) == IF name \in DOMAIN kwargs THEN kwargs[name] ELSE default

\* f with x mapped to v
Put(f, x, v) == [i \in DOMAIN f \cup {x} |-> IF i = x THEN v ELSE f[i]]

\* f without x
Drop(f, x) == [i \in DOMAIN f \ {x} |-> f[i]]

----------------------------------------------------------------------------
(* The state: db is the SQLite file, ret the last call and what it         *)
(* returned, hist what the callers have done so far: the number of adds,   *)
(* of deletes that returned True and of updates, the ids the adds          *)
(* returned, the ids added and not deleted since, and the arguments of the *)
(* add of every record still stored (of a detection: stored and never      *)
(* updated).  run is the calls in progress when callers run concurrently:  *)
(* where each caller's call stands, the connections each has opened and    *)
(* not closed, the last UPDATE that changed each detection, and the number *)
(* of calls begun; while whole calls follow one another it does not change.*)

Callers == {"a", "b"}

\* a caller that has made no call yet
NoCall ==
    [pc |-> "idle", method |-> "", args |-> [f \in {} |-> None],
     current |-> None, result |-> None]

NoCalls ==
    [calls |-> [t \in Callers |-> NoCall],
     conns |-> [t \in Callers |-> 0],
     lastWrite |-> <<>>,
     begun |-> 0]

Init ==
    /\ db = __init__(EmptyFile)
    /\ ret = [op |-> "__init__", args |-> [f \in {} |-> None], result |-> None]
    /\ hist = [adds |-> [t \in Tables |-> 0],
               deletes |-> [t \in Tables |-> 0],
               updates |-> 0,
               returned |-> [t \in Tables |-> {}],
               live |-> [t \in Tables |-> {}],
               logs |-> <<>>,
               dets |-> <<>>]
    /\ run = NoCalls

\* DroneDB(db_path) on the file as it is
Construct ==
    /\ db' = __init__(db)
    /\ ret' = [op |-> "__init__", args |-> [f \in {} |-> None], result |-> None]
    /\ UNCHANGED hist
    /\ UNCHANGED run

AddFlightLog(timestamp, telemetry_data) ==
    /\ hist.adds.flight_logs < MaxFlightLogs
    /\ LET r == add_flight_log(db, timestamp, telemetry_data)
           args == [timestamp |-> timestamp, telemetry_data |-> telemetry_data]
       IN  /\ db' = r.db
           /\ ret' = [op |-> "add_flight_log", args |-> args, result |-> r.result]
           /\ hist' = [hist EXCEPT !.adds.flight_logs = @ + 1,
                                   !.returned.flight_logs = @ \cup {r.result.n},
                                   !.live.flight_logs = @ \cup {r.result.n},
                                   !.logs = Put(@, r.result.n, args)]
    /\ UNCHANGED run

GetFlightLog(log_id) ==
    /\ LET r == get_flight_log(db, log_id)
       IN  /\ db' = r.db
           /\ ret' = [op |-> "get_flight_log", args |-> [log_id |-> log_id],
                      result |-> r.result]
    /\ UNCHANGED hist
    /\ UNCHANGED run

GetAllFlightLogs ==
    /\ LET r == get_all_flight_logs(db)
       IN  /\ db' = r.db
           /\ ret' = [op |-> "get_all_flight_logs", args |-> [f \in {} |-> None],
                      result |-> r.result]
    /\ UNCHANGED hist
    /\ UNCHANGED run

DeleteFlightLog(log_id) ==
    LET r == delete_flight_log(db, log_id)
    IN  /\ db' = r.db
        /\ ret' = [op |-> "delete_flight_log", args |-> [log_id |-> log_id],
                   result |-> r.result]
        /\ hist' = IF Truthy(r.result)
                   THEN [hist EXCEPT !.deletes.flight_logs = @ + 1,
                                     !.live.flight_logs = @ \ {log_id.n},
                                     !.logs = Drop(@, log_id.n)]
                   ELSE hist
        /\ UNCHANGED run

AddDetection(kwargs) ==
    /\ hist.adds.detections < MaxDetections
    /\ LET r == add_detection(db, kwargs.timestamp, kwargs.category, kwargs.latitude,
                              kwargs.longitude, Arg(kwargs, "picture", None),
                              Arg(kwargs, "bhp", False), Arg(kwargs, "worker", False),
                              Arg(kwargs, "change", False))
       IN  /\ db' = r.db
           /\ ret' = [op |-> "add_detection", args |-> kwargs, result |-> r.result]
           /\ hist' = [hist EXCEPT !.adds.detections = @ + 1,
                                   !.returned.detections = @ \cup {r.result.n},
                                   !.live.detections = @ \cup {r.result.n},
                                   !.dets = Put(@, r.result.n, kwargs)]
    /\ UNCHANGED run

GetDetection(detection_id) ==
    /\ LET r == get_detection(db, detection_id)
       IN  /\ db' = r.db
           /\ ret' = [op |-> "get_detection", args |-> [detection_id |-> detection_id],
                      result |-> r.result]
    /\ UNCHANGED hist
    /\ UNCHANGED run

GetAllDetections ==
    /\ LET r == get_all_detections(db)
       IN  /\ db' = r.db
           /\ ret' = [op |-> "get_all_detections", args |-> [f \in {} |-> None],
                      result |-> r.result]
    /\ UNCHANGED hist
    /\ UNCHANGED run

UpdateDetection(detection_id, kwargs) ==
    /\ hist.updates < MaxUpdates
    /\ LET r == update_detection(db, detection_id,
                                 Arg(kwargs, "timestamp", None), Arg(kwargs, "category", None),
                                 Arg(kwargs, "latitude", None), Arg(kwargs, "longitude", None),
                                 Arg(kwargs, "picture", None), Arg(kwargs, "bhp", None),
                                 Arg(kwargs, "worker", None), Arg(kwargs, "change", None))
       IN  /\ db' = r.db
           /\ ret' = [op |-> "update_detection",
                      args |-> [detection_id |-> detection_id, kwargs |-> kwargs],
                      result |-> r.result]
           /\ hist' = [hist EXCEPT !.updates = @ + 1,
                                   !.dets = IF Truthy(r.result)
                                            THEN Drop(@, detection_id.n) ELSE @]
    /\ UNCHANGED run

DeleteDetection(detection_id) ==
    LET r == delete_detection(db, detection_id)
    IN  /\ db' = r.db
        /\ ret' = [op |-> "delete_detection", args |-> [detection_id |-> detection_id],
                   result |-> r.result]
        /\ hist' = IF Truthy(r.result)
                   THEN [hist EXCEPT !.deletes.detections = @ + 1,
                                     !.live.detections = @ \ {detection_id.n},
                                     !.dets = Drop(@, detection_id.n)]
                   ELSE hist
        /\ UNCHANGED run

Next ==
    \/ Construct
    \/ \E timestamp \in Timestamps, telemetry_data \in Telemetries :
          AddFlightLog(timestamp, telemetry_data)
    \/ \E log_id \in LogIds : GetFlightLog(log_id)
    \/ GetAllFlightLogs
    \/ \E log_id \in LogIds : DeleteFlightLog(log_id)
    \/ \E kwargs \in DetectionInputs : AddDetection(kwargs)
    \/ \E detection_id \in DetectionIds : GetDetection(detection_id)
    \/ GetAllDetections
    \/ \E detection_id \in DetectionIds, kwargs \in UpdateInputs :
          UpdateDetection(detection_id, kwargs)
    \/ \E detection_id \in DetectionIds : DeleteDetection(detection_id)

Spec == Init /\ [][Next]_vars

----------------------------------------------------------------------------
(* Properties. *)

MutableFields ==
    {"timestamp", "category", "latitude", "longitude", "picture", "bhp", "worker", "change"}

Flags == {"bhp", "worker", "change"}

\* the record get_detection is to return for the detection added with kwargs as id
AddedDetection(id, kwargs) ==
    PyDict([id |-> PyInt(id),
            timestamp |-> kwargs.timestamp,
            category |-> kwargs.category,
            latitude |-> kwargs.latitude,
            longitude |-> kwargs.longitude,
            picture |-> Arg(kwargs, "picture", None),
            bhp |-> Arg(kwargs, "bhp", False),
            worker |-> Arg(kwargs, "worker", False),
            change |-> Arg(kwargs, "change", False)])

\* the record get_flight_log is to return for the flight log added with args as id
AddedFlightLog(id, args) ==
    PyDict([id |-> PyInt(id),
            timestamp |-> args.timestamp,
            telemetry_data |-> args.telemetry_data])

\* some value of the telemetry is a bool
HasBool(telemetry_data) ==
    \E k \in DOMAIN telemetry_data.map :
        \E i \in DOMAIN telemetry_data.map[k].items : telemetry_data.map[k].items[i].type = "bool"

\* C1: get_flight_log of an id that add_flight_log returned, and that was not deleted
\* since, returns that id with the timestamp and the telemetry_data passed to the add,
\* bools as bools, whatever adds and deletes of other ids came in between.
C1_FlightLogRoundTrip ==
    (ret.op = "get_flight_log" /\ ret.args.log_id.n \in DOMAIN hist.logs)
        => ret.result = AddedFlightLog(ret.args.log_id.n, hist.logs[ret.args.log_id.n])

C1_Witness ==
    /\ ret.op = "get_flight_log"
    /\ ret.args.log_id.n \in DOMAIN hist.logs
    /\ HasBool(hist.logs[ret.args.log_id.n].telemetry_data)
    /\ ret.result # None
    /\ hist.adds.flight_logs = 2
    /\ hist.deletes.flight_logs = 1

\* C2: a call of update_detection that returns True for a stored detection leaves
\* every field it was not given, and the id, as they were, and leaves every other
\* detection and every flight log unchanged.
C2_UpdateFrame ==
    [][(ret'.op = "update_detection" /\ Truthy(ret'.result)
            /\ ret'.args.detection_id.n \in DOMAIN db.detections)
        => LET id == ret'.args.detection_id.n
               given == DOMAIN ret'.args.kwargs
           IN  /\ DOMAIN db'.detections = DOMAIN db.detections
               /\ \A f \in MutableFields \ given :
                      db'.detections[id][f] = db.detections[id][f]
               /\ get_detection(db', PyInt(id)).result.map.id = PyInt(id)
               /\ \A other \in DOMAIN db.detections \ {id} :
                      db'.detections[other] = db.detections[other]
               /\ db'.flight_logs = db.flight_logs]_vars

C2_Witness ==
    /\ ret.op = "update_detection"
    /\ Truthy(ret.result)
    /\ DOMAIN ret.args.kwargs \notin {{}, MutableFields}
    /\ Cardinality(DOMAIN db.detections) = 2
    /\ DOMAIN db.flight_logs # {}

\* C3: after update_detection returned True, every field the caller provided holds
\* the provided value, a flag set to False and a picture set to None (no image)
\* included.
C3_ProvidedValuesHold ==
    (ret.op = "update_detection" /\ Truthy(ret.result))
        => \A f \in DOMAIN ret.args.kwargs :
               get_detection(db, ret.args.detection_id).result.map[f] = ret.args.kwargs[f]

\* C4: delete_flight_log and delete_detection of an id that matches no stored row
\* return False and leave the file as it was: both tables and the next ids.
C4_DeleteMissing ==
    [][/\ (ret'.op = "delete_flight_log"
              /\ ret'.args.log_id.n \notin DOMAIN db.flight_logs)
           => (ret'.result = False /\ db' = db
               /\ \A t \in Tables : NextRowid(db', t) = NextRowid(db, t))
       /\ (ret'.op = "delete_detection"
              /\ ret'.args.detection_id.n \notin DOMAIN db.detections)
           => (ret'.result = False /\ db' = db
               /\ \A t \in Tables : NextRowid(db', t) = NextRowid(db, t))]_vars

C4_Witness ==
    /\ ret.op \in {"delete_flight_log", "delete_detection"}
    /\ ret.result = False
    /\ DOMAIN db.flight_logs # {}
    /\ DOMAIN db.detections # {}

\* C5: update_detection of an id that matches no stored detection returns False,
\* whatever fields are provided, and leaves the detections as they were.
C5_UpdateMissing ==
    [][(ret'.op = "update_detection"
            /\ ret'.args.detection_id.n \notin DOMAIN db.detections)
        => (ret'.result = False /\ db'.detections = db.detections /\ db' = db)]_vars

C5_Witness ==
    /\ ret.op = "update_detection"
    /\ ret.result = False
    /\ DOMAIN ret.args.kwargs # {}
    /\ DOMAIN db.detections # {}

\* the ids of the records in a list of records
IdsOf(list) == {list.items[n].map.id.n : n \in DOMAIN list.items}

\* C6: get_all_flight_logs returns one record for each flight log added and not
\* deleted since, as many as adds minus deletes that returned True;
\* get_all_detections likewise, each record with its current values; each returns
\* the empty list when there is no record.
C6_GetAll ==
    /\ ret.op = "get_all_flight_logs"
          => /\ Len(ret.result.items) = hist.adds.flight_logs - hist.deletes.flight_logs
             /\ IdsOf(ret.result) = hist.live.flight_logs
             /\ \A n \in DOMAIN ret.result.items :
                    LET id == ret.result.items[n].map.id.n
                    IN  ret.result.items[n] = AddedFlightLog(id, hist.logs[id])
             /\ (hist.live.flight_logs = {} => ret.result = PyList(<<>>))
    /\ ret.op = "get_all_detections"
          => /\ Len(ret.result.items) = hist.adds.detections - hist.deletes.detections
             /\ IdsOf(ret.result) = hist.live.detections
             /\ \A n \in DOMAIN ret.result.items :
                    LET id == ret.result.items[n].map.id.n
                    IN  /\ id \in DOMAIN hist.dets
                           => ret.result.items[n] = AddedDetection(id, hist.dets[id])
                        /\ \A f \in MutableFields \ Flags :
                               ret.result.items[n].map[f] = SqlFetch(db.detections[id][f])
                        /\ \A f \in Flags :
                               ret.result.items[n].map[f] = PyBool(db.detections[id][f].int # 0)
             /\ (hist.live.detections = {} => ret.result = PyList(<<>>))

C6_Witness ==
    /\ ret.op = "get_all_detections"
    /\ Len(ret.result.items) = 1
    /\ hist.adds.detections = 2
    /\ hist.deletes.detections = 1
    /\ hist.updates = 1
    /\ DOMAIN hist.dets = {}

\* C7: the id an add returns is greater than every id the adds of that table
\* returned before, also after deletes, the delete of the highest id included; the
\* first add into a fresh store returns 1.
C7_IdsIncrease ==
    [][/\ ret'.op = "add_flight_log"
           => /\ \A i \in hist.returned.flight_logs : ret'.result.n > i
              /\ (hist.adds.flight_logs = 0 => ret'.result = PyInt(1))
       /\ ret'.op = "add_detection"
           => /\ \A i \in hist.returned.detections : ret'.result.n > i
              /\ (hist.adds.detections = 0 => ret'.result = PyInt(1))]_vars

C7_Witness ==
    /\ ret.op = "add_flight_log"
    /\ ret.result = PyInt(2)
    /\ hist.deletes.flight_logs = 1
    /\ DOMAIN db.flight_logs = {2}

\* C8: a delete of an id that matches a stored record returns True and removes
\* that record and nothing else; afterwards the get of that id returns None and a
\* second delete of it returns False.
C8_DeleteStored ==
    [][/\ (ret'.op = "delete_flight_log"
              /\ ret'.args.log_id.n \in DOMAIN db.flight_logs)
           => LET log_id == ret'.args.log_id
              IN  /\ ret'.result = True
                  /\ db' = [db EXCEPT !.flight_logs = Drop(@, log_id.n)]
                  /\ get_flight_log(db', log_id).result = None
                  /\ delete_flight_log(db', log_id).result = False
       /\ (ret'.op = "delete_detection"
              /\ ret'.args.detection_id.n \in DOMAIN db.detections)
           => LET detection_id == ret'.args.detection_id
              IN  /\ ret'.result = True
                  /\ db' = [db EXCEPT !.detections = Drop(@, detection_id.n)]
                  /\ get_detection(db', detection_id).result = None
                  /\ delete_detection(db', detection_id).result = False]_vars

C8_Witness ==
    /\ ret.op = "delete_detection"
    /\ ret.result = True
    /\ DOMAIN db.detections # {}
    /\ DOMAIN db.flight_logs # {}

\* C9: get_detection of the id add_detection returned gives every supplied field
\* as passed, picture None when none was supplied and the omitted flags False; in
\* the records of get_detection and of get_all_detections bhp, worker and change are
\* bools equal to the stored flag.
C9_DetectionRoundTrip ==
    /\ (ret.op = "get_detection" /\ ret.args.detection_id.n \in DOMAIN hist.dets)
          => ret.result = AddedDetection(ret.args.detection_id.n,
                                         hist.dets[ret.args.detection_id.n])
    /\ (ret.op = "get_detection" /\ ret.result # None)
          => \A f \in Flags :
                 ret.result.map[f] =
                     PyBool(db.detections[ret.args.detection_id.n][f].int # 0)
    /\ ret.op = "get_all_detections"
          => \A n \in DOMAIN ret.result.items : \A f \in Flags :
                 ret.result.items[n].map[f] =
                     PyBool(db.detections[ret.result.items[n].map.id.n][f].int # 0)

C9_Witness ==
    /\ ret.op = "get_detection"
    /\ ret.args.detection_id.n \in DOMAIN hist.dets
    /\ DOMAIN hist.dets[ret.args.detection_id.n] \cap {"picture", "bhp", "worker"} = {}
    /\ ret.result # None
    /\ ret.result.map.change = True
    /\ ret.result.map.picture = None

\* C10: constructing a DroneDB on a file that holds records leaves every row of
\* both tables as it was, and the next add still returns an id greater than all
\* ids returned before.
C10_InitKeepsData ==
    [][ret'.op = "__init__"
        => /\ db'.flight_logs = db.flight_logs
           /\ db'.detections = db.detections
           /\ \A t \in Tables :
                  /\ NextRowid(db', t) = NextRowid(db, t)
                  /\ \A i \in hist.returned[t] : NextRowid(db', t) > i]_vars

C10_Witness ==
    /\ ret.op = "__init__"
    /\ DOMAIN db.flight_logs # {}
    /\ DOMAIN db.detections # {}
    /\ hist.deletes.flight_logs > 0

----------------------------------------------------------------------------
(* Concurrent callers.  A call is a sequence of steps: it opens its        *)
(* connection, executes its statement and commits (one step: nothing of a  *)
(* transaction is visible to another connection before the commit), then   *)
(* closes the connection and returns.  update_detection does this twice,   *)
(* for the SELECT of get_detection and for its UPDATE.  A statement may    *)
(* fail in the store, and json.dumps fails on an object that is not        *)
(* serializable; the exception leaves the method where it is raised.       *)

\* an object json.dumps cannot encode
PySet(s) == [type |-> "set", elems |-> s]

\* an exception raised to the caller
Raised(name) == [type |-> "exception", name |-> name]

RECURSIVE Serializable(_)
\* json.dumps encodes o (it raises TypeError otherwise)
Serializable(o) ==
    CASE o.type \in {"str", "NoneType", "bool", "int", "float"} -> TRUE
      [] o.type \in {"list", "tuple"} -> \A i \in DOMAIN o.items : Serializable(o.items[i])
      [] o.type = "dict" -> \A k \in DOMAIN o.map : Serializable(o.map[k])
      [] OTHER -> FALSE

\* the calls the concurrent callers make
CallInputs ==
    {[method |-> "__init__", args |-> [f \in {} |-> None]],
     [method |-> "add_flight_log",
      args |-> [timestamp |-> PyStr("2024-01-01T00:00:00"),
                telemetry_data |-> PyDict([Armed |-> PyList(<<True, False>>)])]],
     [method |-> "add_flight_log",
      args |-> [timestamp |-> PyStr("2024-01-01T00:00:00"),
                telemetry_data |-> PyDict([Armed |-> PySet({TRUE})])]],
     [method |-> "get_flight_log", args |-> [log_id |-> PyInt(1)]],
     [method |-> "get_all_flight_logs", args |-> [f \in {} |-> None]],
     [method |-> "delete_flight_log", args |-> [log_id |-> PyInt(1)]],
     [method |-> "add_detection",
      args |-> [timestamp |-> PyStr("2024-01-01T00:00:00"), category |-> PyStr("Worker"),
                latitude |-> PyFloat(52, 1), longitude |-> PyFloat(21, 1),
                picture |-> PyStr("path/to/image.jpg"),
                bhp |-> True, worker |-> True, change |-> False]],
     [method |-> "get_detection", args |-> [detection_id |-> PyInt(1)]],
     [method |-> "get_all_detections", args |-> [f \in {} |-> None]],
     [method |-> "update_detection",
      args |-> [detection_id |-> PyInt(1),
                kwargs |-> [category |-> PyStr("Critical Hazard")]]],
     [method |-> "update_detection",
      args |-> [detection_id |-> PyInt(1), kwargs |-> [bhp |-> False]]],
     [method |-> "delete_detection", args |-> [detection_id |-> PyInt(1)]]}

\* the statement(s) of a method other than update_detection: the new file and the result
Statement(d, method, args) ==
    CASE method = "__init__" -> [db |-> __init__(d), result |-> None]
      [] method = "add_flight_log" -> add_flight_log(d, args.timestamp, args.telemetry_data)
      [] method = "get_flight_log" -> get_flight_log(d, args.log_id)
      [] method = "get_all_flight_logs" -> get_all_flight_logs(d)
      [] method = "delete_flight_log" -> delete_flight_log(d, args.log_id)
      [] method = "add_detection" ->
            add_detection(d, args.timestamp, args.category, args.latitude, args.longitude,
                          Arg(args, "picture", None), Arg(args, "bhp", False),
                          Arg(args, "worker", False), Arg(args, "change", False))
      [] method = "get_detection" -> get_detection(d, args.detection_id)
      [] method = "get_all_detections" -> get_all_detections(d)
      [] method = "delete_detection" -> delete_detection(d, args.detection_id)

\* the row update_detection writes for the keyword arguments, given the record it read
MergedRow(current, kwargs) ==
    UpdateMerge(current,
                Arg(kwargs, "timestamp", None), Arg(kwargs, "category", None),
                Arg(kwargs, "latitude", None), Arg(kwargs, "longitude", None),
                Arg(kwargs, "picture", None), Arg(kwargs, "bhp", None),
                Arg(kwargs, "worker", None), Arg(kwargs, "change", None))

Returned(t) == [op |-> run.calls[t].method, args |-> run.calls[t].args,
                result |-> run.calls[t].result]

\* conn = self._get_connection(), the first statement of every method
\* (of update_detection: of the get_detection it calls first)
Begin(t, c) ==
    /\ run.calls[t].pc = "idle"
    /\ run.begun < MaxCalls
    /\ run' = [run EXCEPT !.calls[t] = [pc |-> IF c.method = "update_detection"
                                               THEN "read" ELSE "execute",
                                        method |-> c.method, args |-> c.args,
                                        current |-> None, result |-> None],
                          !.conns[t] = @ + 1,
                          !.begun = @ + 1]
    /\ UNCHANGED <<db, ret, hist>>

\* json.dumps raises TypeError: add_flight_log is left with its connection open
RaiseSerialization(t) ==
    /\ run.calls[t].pc = "execute"
    /\ run.calls[t].method = "add_flight_log"
    /\ ~Serializable(run.calls[t].args.telemetry_data)
    /\ run' = [run EXCEPT !.calls[t].pc = "idle",
                          !.calls[t].result = Raised("TypeError")]
    /\ ret' = [Returned(t) EXCEPT !.result = Raised("TypeError")]
    /\ UNCHANGED <<db, hist>>

\* cursor.execute or conn.commit raises: the method is left with its connection open
StoreFailure(t) ==
    /\ run.calls[t].pc \in {"execute", "read", "write"}
    /\ run.calls[t].method = "add_flight_log"
           => Serializable(run.calls[t].args.telemetry_data)
    /\ run' = [run EXCEPT !.calls[t].pc = "idle",
                          !.calls[t].result = Raised("sqlite3.Error")]
    /\ ret' = [Returned(t) EXCEPT !.result = Raised("sqlite3.Error")]
    /\ UNCHANGED <<db, hist>>

\* cursor.execute(...), the fetch or lastrowid or rowcount, conn.commit()
Execute(t) ==
    /\ run.calls[t].pc = "execute"
    /\ run.calls[t].method = "add_flight_log"
           => Serializable(run.calls[t].args.telemetry_data)
    /\ LET r == Statement(db, run.calls[t].method, run.calls[t].args)
       IN  /\ db' = r.db
           /\ run' = [run EXCEPT !.calls[t].pc = "close",
                                 !.calls[t].result = r.result]
    /\ UNCHANGED <<ret, hist>>

\* conn.close() and the return
Close(t) ==
    /\ run.calls[t].pc = "close"
    /\ run' = [run EXCEPT !.calls[t].pc = "idle", !.conns[t] = @ - 1]
    /\ ret' = Returned(t)
    /\ UNCHANGED <<db, hist>>

\* update_detection: the SELECT of get_detection(detection_id)
Read(t) ==
    /\ run.calls[t].pc = "read"
    /\ run' = [run EXCEPT !.calls[t].pc = "readclose",
                          !.calls[t].current =
                              get_detection(db, run.calls[t].args.detection_id).result]
    /\ UNCHANGED <<db, ret, hist>>

\* update_detection: get_detection closes and returns current; return False without it
ReadClose(t) ==
    /\ run.calls[t].pc = "readclose"
    /\ IF ~Truthy(run.calls[t].current)
       THEN /\ run' = [run EXCEPT !.calls[t].pc = "idle", !.calls[t].result = False,
                                  !.conns[t] = @ - 1]
            /\ ret' = [Returned(t) EXCEPT !.result = False]
       ELSE /\ run' = [run EXCEPT !.calls[t].pc = "merge", !.conns[t] = @ - 1]
            /\ ret' = ret
    /\ UNCHANGED <<db, hist>>

\* update_detection: the merge and conn = self._get_connection()
WriteOpen(t) ==
    /\ run.calls[t].pc = "merge"
    /\ run' = [run EXCEPT !.calls[t].pc = "write", !.conns[t] = @ + 1]
    /\ UNCHANGED <<db, ret, hist>>

\* a write that merges the keyword arguments into the record stored at the moment of
\* the write instead of the record read before
WriteMergingStored(t) ==
    /\ run.calls[t].pc = "write"
    /\ LET call == run.calls[t]
           stored == get_detection(db, call.args.detection_id).result
           r == UpdateWrite(db, MergedRow(IF Truthy(stored) THEN stored ELSE call.current,
                                          call.args.kwargs),
                            call.args.detection_id)
       IN  /\ db' = r.db
           /\ run' = [run EXCEPT !.calls[t].pc = "close",
                                 !.calls[t].result = r.result,
                                 !.lastWrite = IF Truthy(r.result)
                                               THEN Put(@, call.args.detection_id.n,
                                                        [caller |-> t,
                                                         current |-> call.current,
                                                         kwargs |-> call.args.kwargs])
                                               ELSE @]
    /\ UNCHANGED <<ret, hist>>

\* update_detection: the UPDATE, updated = cursor.rowcount > 0, conn.commit()
Write(t) ==
    /\ run.calls[t].pc = "write"
    /\ LET call == run.calls[t]
           r == UpdateWrite(db, MergedRow(call.current, call.args.kwargs),
                            call.args.detection_id)
       IN  /\ db' = r.db
           /\ run' = [run EXCEPT !.calls[t].pc = "close",
                                 !.calls[t].result = r.result,
                                 !.lastWrite = IF Truthy(r.result)
                                               THEN Put(@, call.args.detection_id.n,
                                                        [caller |-> t,
                                                         current |-> call.current,
                                                         kwargs |-> call.args.kwargs])
                                               ELSE @]
    /\ UNCHANGED <<ret, hist>>

\* the connections of t the call in progress is using
InUse(t) == IF run.calls[t].pc \in {"idle", "merge"} THEN 0 ELSE 1

\* the interpreter finalizes a connection no method closed, once the exception that
\* left the method is dropped; when that happens is up to the interpreter
Finalize(t) ==
    /\ run.conns[t] > InUse(t)
    /\ run' = [run EXCEPT !.conns[t] = @ - 1]
    /\ UNCHANGED <<db, ret, hist>>

NextCalls ==
    \/ \E t \in Callers, c \in CallInputs : Begin(t, c)
    \/ \E t \in Callers : RaiseSerialization(t)
    \/ \E t \in Callers : StoreFailure(t)
    \/ \E t \in Callers : Execute(t)
    \/ \E t \in Callers : Close(t)
    \/ \E t \in Callers : Read(t)
    \/ \E t \in Callers : ReadClose(t)
    \/ \E t \in Callers : WriteOpen(t)
    \/ \E t \in Callers : Write(t)
    \/ \E t \in Callers : Finalize(t)

SpecCalls == Init /\ [][NextCalls]_vars

----------------------------------------------------------------------------
(* Properties of concurrent calls                                          *)

\* caller t has returned from an update_detection that returned True
UpdatedTrue(t) ==
    /\ run.calls[t].pc = "idle"
    /\ run.calls[t].method = "update_detection"
    /\ run.calls[t].result = True

\* callers t and u have both returned True from update_detection of the same detection
\* with different fields, both had read the same record, and u wrote last
BothUpdatedFromOneRead(t, u) ==
    /\ t # u
    /\ UpdatedTrue(t)
    /\ UpdatedTrue(u)
    /\ run.calls[t].args.detection_id = run.calls[u].args.detection_id
    /\ DOMAIN run.calls[t].args.kwargs \cap DOMAIN run.calls[u].args.kwargs = {}
    /\ run.calls[t].current = run.calls[u].current
    /\ run.calls[u].args.detection_id.n \in DOMAIN run.lastWrite
    /\ run.lastWrite[run.calls[u].args.detection_id.n].caller = u
    /\ run.calls[u].args.detection_id.n \in DOMAIN db.detections

\* C11: when two callers update the same detection with different fields and both
\* read the record before either writes, both return True and the stored record is
\* the last writer's merged record: the last writer's field holds its value, and
\* the other writer's field, like every field neither gave, is back at the value
\* both had read (the other writer's change is lost).
C11_LastWriterWinsWholeRecord ==
    \A t, u \in Callers :
        BothUpdatedFromOneRead(t, u)
            => LET stored == get_detection(db, run.calls[u].args.detection_id).result.map
                   read == run.calls[u].current.map
                   last == run.calls[u].args.kwargs
               IN  /\ \A f \in DOMAIN last : stored[f] = last[f]
                   /\ \A f \in MutableFields \ DOMAIN last : stored[f] = read[f]

C11_Witness ==
    \E t, u \in Callers :
        /\ BothUpdatedFromOneRead(t, u)
        /\ LET stored == get_detection(db, run.calls[u].args.detection_id).result.map
               read == run.calls[u].current.map
           IN  /\ \A f \in DOMAIN run.calls[u].args.kwargs :
                      stored[f] = run.calls[u].args.kwargs[f] /\ stored[f] # read[f]
               /\ DOMAIN run.calls[t].args.kwargs # {}
               /\ \A f \in DOMAIN run.calls[t].args.kwargs :
                      stored[f] # run.calls[t].args.kwargs[f] /\ stored[f] = read[f]

\* C12: whenever a caller is between two calls, every connection its calls opened
\* has been closed: a method has released its connection by the time it returns,
\* with a result or with an exception of json.dumps or of sqlite3.
C12_ReleasedOnReturn ==
    \A t \in Callers : run.calls[t].pc = "idle" => run.conns[t] = 0

\* a method that returns a result has closed every connection it opened
ReleasedOnResult ==
    [][\A t \in Callers :
           (run.calls[t].pc # "idle" /\ run'.calls[t].pc = "idle"
                /\ run'.calls[t].result.type # "exception")
               => run'.conns[t] = run.conns[t] - 1]_vars

\* caller t has returned False from an update_detection that had read a record
UpdateLostItsRow(t) ==
    /\ run.calls[t].pc = "idle"
    /\ run.calls[t].method = "update_detection"
    /\ Truthy(run.calls[t].current)
    /\ run.calls[t].result = False

\* C13: the write of update_detection returns True exactly if a row with the id is
\* stored at the moment of the write, and it never adds a row: when delete_detection
\* has removed the row between the read and the write, the write changes nothing
\* and update_detection returns False; and after an update_detection that had read
\* a record returned False, no detection with that id is stored.
C13_UpdateNeverResurrects ==
    /\ [][\A t \in Callers :
              (run.calls[t].pc = "write" /\ run'.calls[t].pc = "close")
                  => LET id == run.calls[t].args.detection_id.n
                     IN  /\ run'.calls[t].result = PyBool(id \in DOMAIN db.detections)
                         /\ DOMAIN db'.detections = DOMAIN db.detections
                         /\ id \notin DOMAIN db.detections => db' = db]_vars
    /\ [](\A t \in Callers :
              UpdateLostItsRow(t)
                  => run.calls[t].args.detection_id.n \notin DOMAIN db.detections)

C13_Witness ==
    \E t, u \in Callers :
        /\ UpdateLostItsRow(t)
        /\ run.calls[u].pc = "idle"
        /\ run.calls[u].method = "delete_detection"
        /\ run.calls[u].args.detection_id = run.calls[t].args.detection_id
        /\ run.calls[u].result = True
        /\ run.calls[t].args.detection_id.n \notin DOMAIN db.detections
        /\ db.sqlite_sequence.detections >= run.calls[t].args.detection_id.n

====
